---- MODULE Spec2Model ----
(***************************************************************************)
(* Model of denops/@ddc-sources/nvim-lsp.ts (class Source): the gather     *)
(* cycle with its per-client item cache, and the onCompleteDone handler.   *)
(*                                                                         *)
(* JavaScript runs every continuation to its next await before any other   *)
(* task runs.  A step of the model is therefore the code between two       *)
(* awaits that wait for the outside world (a provider's answer, the        *)
(* deadline, a host call).  The continuation of gather after Promise.all   *)
(* is a chain of microtasks: while it is pending no other task can run     *)
(* (ReturnPending).                                                        *)
(***************************************************************************)
EXTENDS Integers, Sequences, FiniteSets, TLC

\* ------------------------------------------------------------------------
\* Bounds
\* ------------------------------------------------------------------------
MaxCycles == 2

\* longest input of a request
MaxInput == 2

\* ------------------------------------------------------------------------
\* Values
\* ------------------------------------------------------------------------
Providers == {1, 2}

Cycles == 1 .. MaxCycles

\* lists get_clients() can return (l.84-87): any list of distinct clients
ClientLists == {<<>>, <<1>>, <<2>>, <<1, 2>>, <<2, 1>>}

\* type Client (l.28-32): the capability of each client
Client(id) == [id |-> id, resolveProvider |-> (id = 1)]

\* protocol candidates of a response; "dropped" is one toDdcItem rejects
RawCandidates == {"console", "dropped"}

\* the candidate lists of the responses
RawLists == {<<>>, <<"console">>, <<"dropped">>}

\* type Result (l.34), or the null a client can answer with
Results ==
  {[kind |-> "null"]}
    \cup {[kind |-> "array", items |-> l] : l \in RawLists}
    \cup {[kind |-> "list", items |-> l, isIncomplete |-> b] :
            l \in RawLists, b \in BOOLEAN}

\* what gather reads at its start: getline(".") and args.completePos,
\* args.completeStr (l.80, l.104-105)
GatherArgs ==
  {[lineOnRequest |-> <<"c">>, completePos |-> 0, completeStrLen |-> 1],
   [lineOnRequest |-> <<"c", "o">>, completePos |-> 0, completeStrLen |-> 2]}

NoArgs == [lineOnRequest |-> <<>>, completePos |-> 0, completeStrLen |-> 0]

\* the words and lines of the confirm events
Words == {<<"f">>, <<"f", "o">>}

Texts == {<<"f", "o">>, <<"o", "f">>}

Offsets == 0 .. 1

\* LSP.TextEdit / InsertReplaceEdit of a candidate: its insert and replace
\* ranges on the line
Ranges == {[start |-> 0, end |-> e] : e \in 1 .. 2}

TextEdits == {<<>>} \cup {<<[insert |-> [start |-> 0, end |-> 1], replace |-> r]>> : r \in Ranges}

\* LSP.CompletionItem: the fields onCompleteDone depends on.  An optional
\* field is <<>> when missing and <<v>> when present; additionalTextEdits
\* is missing, an empty array or an array of edits.
LspItems ==
  [label : Words,
   insertText : {<<>>} \cup {<<w>> : w \in Words},
   additionalTextEdits : {"undefined", "empty", "edits"},
   textEdit : TextEdits]

\* type UserData (l.38-52)
UserDatas ==
  [lspitem : {[json |-> i] : i \in LspItems},
   resolvable : BOOLEAN,
   requestCharacter : {1},
   suggestCharacter : Offsets]

\* type Params (l.54-62): the options onCompleteDone reads
ParamsSet ==
  [enableResolveItem : BOOLEAN,
   enableAdditionalTextEdit : BOOLEAN,
   confirmBehavior : {"insert", "replace"}]

\* v:completed_item.word and LineContext.create (l.200-201)
ConfirmInputs ==
  [userData : UserDatas,
   params : ParamsSet,
   itemWord : Words,
   ctx : [text : Texts, character : 1 .. 2]]

\* answers of the resolve call (l.244-248): null or a candidate
ResolveResults ==
  {<<>>} \cup {<<i>> : i \in {j \in LspItems : j.label = <<"f", "o">> /\ j.textEdit = <<>>}}

NoInput ==
  [userData |-> [lspitem |-> [json |-> [label |-> <<"f">>, insertText |-> <<>>,
                                        additionalTextEdits |-> "undefined",
                                        textEdit |-> <<>>]],
                 resolvable |-> FALSE, requestCharacter |-> 1,
                 suggestCharacter |-> 0],
   params |-> [enableResolveItem |-> FALSE, enableAdditionalTextEdit |-> FALSE,
               confirmBehavior |-> "insert"],
   itemWord |-> <<"f">>,
   ctx |-> [text |-> <<"f", "o">>, character |-> 1]]

\* the value of a missing item (toDdcItem's undefined)
Undefined == [undefined |-> TRUE]

\* the empty Record of l.73 and l.132
EmptyCache == <<>>

\* ------------------------------------------------------------------------
\* Pure parts of gather
\* ------------------------------------------------------------------------
RECURSIVE Flat(_)
\* items.flat(1) (l.125)
Flat(ss) == IF ss = <<>> THEN <<>> ELSE Head(ss) \o Flat(Tail(ss))

\* the constructor argument of l.105 without the length of completeStr
RequestCharacter_AtCompletePos(a) == a.completePos

\* the constructor argument of l.105
RequestCharacter(a) == a.completePos + a.completeStrLen

\* the constructor argument of l.104
SuggestCharacter(a) == a.completePos

\* CompletionItem.toDdcItem with the constructor arguments of l.99-108
ToDdcItem(lspItem, client, a) ==
  IF lspItem = "dropped"
    THEN Undefined
    ELSE [lspitem |-> lspItem,
          clientId |-> client.id,
          resolvable |-> client.resolveProvider,
          lineOnRequest |-> a.lineOnRequest,
          requestCharacter |-> RequestCharacter(a),
          suggestCharacter |-> SuggestCharacter(a)]

\* isDefined (l.64-66)
isDefined(x) == x # Undefined

RECURSIVE MapFilter(_, _, _)
\* completionList.items.map(toDdcItem).filter(isDefined) (l.113-118)
MapFilter(raw, client, a) ==
  IF raw = <<>>
    THEN <<>>
    ELSE LET x == ToDdcItem(Head(raw), client, a)
         IN  (IF isDefined(x) THEN <<x>> ELSE <<>>)
               \o MapFilter(Tail(raw), client, a)

\* l.110-112: a bare array is a complete list
ToCompletionList(result) ==
  IF result.kind = "array"
    THEN [kind |-> "list", items |-> result.items, isIncomplete |-> FALSE]
    ELSE result

\* request() without the instanceof test of l.176: every error is rethrown
RequestReturn_Rethrow(ev) ==
  IF ev.kind \in {"DeadlineError", "Error"} THEN [kind |-> "throw"] ELSE ev

\* the await of deadline() inside try/catch (l.164-179): what request()
\* gives its caller for each outcome of the call
RequestReturn(ev) ==
  IF ev.kind = "DeadlineError"
    THEN [kind |-> "undefined"]
    ELSE IF ev.kind = "Error" THEN [kind |-> "throw"] ELSE ev

\* !result (l.95)
Falsy(result) == result.kind \in {"undefined", "null"}

\* if (this.#item_cache[client.id]) (l.90): an array is always truthy
CacheHit(cache, id) == id \in DOMAIN cache

\* l.119-121
CachePut(cache, id, items, incomplete) ==
  IF ~incomplete
    THEN [q \in DOMAIN cache \cup {id} |-> IF q = id THEN items ELSE cache[q]]
    ELSE cache

\* l.122
OrIncomplete(acc, incomplete) == acc \/ incomplete

\* gather without the clear of l.131-133
ClearCache_Never(cache, incomplete) == cache

\* l.131-133
ClearCache(cache, incomplete) ==
  IF ~incomplete THEN EmptyCache ELSE cache

\* ------------------------------------------------------------------------
\* State
\* ------------------------------------------------------------------------
VARIABLES
  item_cache,    \* #item_cache (l.73): the items of the client ids it holds
  cycle,         \* number of gather calls made so far
  gst,           \* per call: position of gather at its await of Promise.all
  clients,       \* per call: the client list of l.84-87
  gargs,         \* per call: the snapshot of l.80 and the args
  cb,            \* per call and client: the async callback of l.89-125
  isIncomplete,  \* per call: the local variable of l.81
  ret,           \* per call: the value gather returned (l.135-138)
  errors,        \* per call: number of printError calls (l.127)
  requests,      \* per call and client: number of this.request calls (l.94)
  outcome        \* per call and client: what the outside world answered

gvars ==
  <<item_cache, cycle, gst, clients, gargs, cb, isIncomplete, ret, errors,
    requests, outcome>>

VARIABLES
  pc,            \* onCompleteDone: the await it is at
  inp,           \* onCompleteDone: its arguments and what it reads (l.193-201)
  lspItem,       \* onCompleteDone: the constant of l.207, once assigned
  effects,       \* onCompleteDone: the host calls it has made, in order
  results,       \* how the awaited host calls ended, in the order of effects
  preview        \* getPreviewer: the Previewer it returned, once returned

cvars == <<pc, inp, lspItem, effects, results, preview>>

VARIABLES
  rq             \* request: its inputs and the params.context it built

rvars == <<rq>>

vars == <<gvars, cvars, rvars>>

NoRet == [items |-> <<>>, isIncomplete |-> FALSE]

NoOutcome == [kind |-> "none"]

IdleCb == [st |-> "unused", items |-> <<>>]

InitGather ==
  /\ item_cache = EmptyCache
  /\ cycle = 0
  /\ gst = [c \in Cycles |-> "unused"]
  /\ clients = [c \in Cycles |-> <<>>]
  /\ gargs = [c \in Cycles |-> NoArgs]
  /\ cb = [c \in Cycles |-> [p \in Providers |-> IdleCb]]
  /\ isIncomplete = [c \in Cycles |-> FALSE]
  /\ ret = [c \in Cycles |-> NoRet]
  /\ errors = [c \in Cycles |-> 0]
  /\ requests = [c \in Cycles |-> [p \in Providers |-> 0]]
  /\ outcome = [c \in Cycles |-> [p \in Providers |-> NoOutcome]]

InitConfirm ==
  /\ pc = "idle"
  /\ inp = NoInput
  /\ lspItem = <<>>
  /\ effects = <<>>
  /\ results = <<>>
  /\ preview = <<>>

InitRequest == rq = [st |-> "idle"]

Range(s) == {s[i] : i \in 1 .. Len(s)}

\* a gather call is between its entry and its return
Running(c) == gst[c] \in {"awaiting", "resolved", "rejected"}

\* the continuation of some gather call after Promise.all is queued
ReturnPending == \E c \in Cycles : gst[c] \in {"resolved", "rejected"}

\* a call that has returned while a callback of it still waits for its
\* request: the callback goes on running when its request settles
Late(c) == gst[c] = "returned" /\ \E p \in Providers : cb[c][p].st = "waiting"

\* every callback of the list has fulfilled: Promise.all fulfils
AllFulfilled(cbc, cl) == \A p \in Range(cl) : cbc[p].st = "fulfilled"

\* the deadline of a request has passed and its answer has not come yet
Expired(o) ==
  \/ o.kind = "expired"
  \/ o.kind = "timeout" /\ ~o.answered

\* ------------------------------------------------------------------------
\* gather (l.75-139)
\* ------------------------------------------------------------------------
\* l.78-94: entry of gather up to the first await of every callback.  The
\* callbacks of clients.map run synchronously up to their first await, so
\* all cache lookups of a cycle happen in this step.  The records kept of
\* earlier calls are dropped here, except the callbacks still waiting and
\* the requests whose answer is still to come; the records of a call that
\* is still running are kept.
GatherEntry(cl, a) ==
  /\ UNCHANGED <<cvars, rvars>>
  /\ cycle < MaxCycles
  /\ LET c == cycle + 1
         newcb == [p \in Providers |->
                     IF p \notin Range(cl)
                       THEN IdleCb
                       ELSE IF CacheHit(item_cache, p)
                              THEN [st |-> "fulfilled", items |-> item_cache[p]]
                              ELSE [st |-> "waiting", items |-> <<>>]]
     IN  /\ cycle' = c
         /\ clients' = [d \in Cycles |->
                          IF d = c
                            THEN cl
                            ELSE IF Running(d) THEN clients[d] ELSE <<>>]
         /\ gargs' = [d \in Cycles |->
                        IF d = c
                          THEN a
                          ELSE IF Late(d) \/ Running(d) THEN gargs[d] ELSE NoArgs]
         /\ cb' = [d \in Cycles |->
                     IF d = c
                       THEN newcb
                       ELSE IF Running(d)
                              THEN cb[d]
                              ELSE [p \in Providers |->
                                      IF cb[d][p].st = "waiting"
                                        THEN cb[d][p] ELSE IdleCb]]
         /\ requests' = [d \in Cycles |->
                           IF d # c /\ Running(d)
                             THEN requests[d]
                             ELSE [p \in Providers |->
                                     IF d = c /\ newcb[p].st = "waiting"
                                       THEN 1 ELSE 0]]
         /\ outcome' = [d \in Cycles |->
                          IF d # c /\ Running(d)
                            THEN outcome[d]
                            ELSE [p \in Providers |->
                                    IF d = c
                                      THEN IF newcb[p].st = "fulfilled"
                                             THEN [kind |-> "cache"]
                                             ELSE NoOutcome
                                      ELSE IF Expired(outcome[d][p])
                                             THEN [kind |-> "expired"]
                                             ELSE NoOutcome]]
         /\ gst' = [gst EXCEPT ![c] =
                      IF AllFulfilled(newcb, cl) THEN "resolved" ELSE "awaiting"]
  /\ isIncomplete' = [d \in Cycles |->
                        IF Running(d) THEN isIncomplete[d] ELSE FALSE]
  /\ ret' = [d \in Cycles |-> NoRet]
  /\ errors' = [d \in Cycles |-> 0]
  /\ UNCHANGED item_cache

\* the host calls gather when no earlier call is running
GatherStart(cl, a) ==
  /\ \A c \in Cycles : ~Running(c)
  /\ GatherEntry(cl, a)

\* the host calls gather while an earlier call awaits its requests
GatherOverlap(cl, a) ==
  /\ \E c \in Cycles : Running(c)
  /\ ~ReturnPending
  /\ GatherEntry(cl, a)

\* what is recorded of an answer that comes after gather has returned
LateTag(tag) ==
  [kind |-> "late", isIncomplete |-> (tag.kind = "list" /\ tag.isIncomplete)]

\* the callback of l.89-125 after this.request has settled with ev
CallbackStep(c, p, ev, tag) ==
  /\ UNCHANGED <<cvars, rvars>>
  /\ outcome' = [outcome EXCEPT ![c][p] =
                   IF gst[c] = "awaiting" THEN tag ELSE LateTag(tag)]
  /\ LET result == RequestReturn(ev)
     IN  IF result.kind = "throw"
           THEN \* l.94 throws: the callback rejects, Promise.all rejects
                /\ cb' = [cb EXCEPT ![c][p] = [st |-> "rejected", items |-> <<>>]]
                /\ gst' = [gst EXCEPT ![c] =
                             IF @ = "awaiting" THEN "rejected" ELSE @]
                /\ UNCHANGED <<item_cache, isIncomplete>>
           ELSE LET list == ToCompletionList(result)
                    items == IF Falsy(result)
                               THEN <<>>
                               ELSE MapFilter(list.items, Client(p), gargs[c])
                    newcb == [cb EXCEPT ![c][p] =
                                [st |-> "fulfilled",
                                 items |-> IF gst[c] = "awaiting"
                                             THEN items ELSE <<>>]]
                IN  /\ cb' = newcb
                    /\ gst' = [gst EXCEPT ![c] =
                                 IF @ = "awaiting" /\ AllFulfilled(newcb[c], clients[c])
                                   THEN "resolved" ELSE @]
                    /\ IF Falsy(result)
                         THEN UNCHANGED <<item_cache, isIncomplete>>
                         ELSE /\ item_cache' =
                                   CachePut(item_cache, p, items, list.isIncomplete)
                              /\ isIncomplete' =
                                   [isIncomplete EXCEPT ![c] =
                                      OrIncomplete(@, list.isIncomplete)]
  /\ UNCHANGED <<cycle, clients, gargs, ret, errors, requests>>

\* the callback of client p in call c is at the await of l.94
Waiting(c, p) == cb[c][p].st = "waiting" /\ ~ReturnPending

\* the client answers before the deadline (l.166-168, l.174)
Respond(c, p, res) ==
  /\ Waiting(c, p)
  /\ CallbackStep(c, p, res, res)

\* deadline() rejects with DeadlineError (l.174-179)
Timeout(c, p) ==
  /\ Waiting(c, p)
  /\ CallbackStep(c, p, [kind |-> "DeadlineError"],
                  [kind |-> "timeout", answered |-> FALSE])

\* the answer is handled as if the callback of l.89-125 still awaited it
AfterDeadline_Handled(c, p, res) ==
  /\ item_cache' =
       LET list == ToCompletionList(res)
       IN  CachePut(item_cache, p, MapFilter(list.items, Client(p), gargs[c]),
                    list.isIncomplete)
  /\ UNCHANGED <<cb, isIncomplete, gst>>

\* l.166-168 after l.174-179: defer.resolve on a Deferred that deadline()
\* has already rejected; request() has returned and nothing awaits it
AfterDeadline(c, p, res) ==
  UNCHANGED <<item_cache, cb, isIncomplete, gst>>

\* the client answers after the deadline of its request has passed
LateResponse(c, p, res) ==
  /\ Expired(outcome[c][p])
  /\ ~ReturnPending
  /\ res.kind # "null"
  /\ outcome' = [outcome EXCEPT ![c][p] =
                   [kind |-> IF @.kind = "timeout" THEN "timeout" ELSE "discarded",
                    answered |-> TRUE]]
  /\ AfterDeadline(c, p, res)
  /\ UNCHANGED <<cycle, clients, gargs, ret, errors, requests, cvars, rvars>>

\* a denops.call of request() throws (l.146, l.169)
Fail(c, p) ==
  /\ Waiting(c, p)
  /\ CallbackStep(c, p, [kind |-> "Error"], [kind |-> "fail"])

\* l.125 .then and l.131-138, after Promise.all has fulfilled
GatherThen(c) ==
  /\ UNCHANGED <<cvars, rvars>>
  /\ gst[c] = "resolved"
  /\ LET items == Flat([i \in 1 .. Len(clients[c]) |-> cb[c][clients[c][i]].items])
     IN  ret' = [ret EXCEPT ![c] =
                   [items |-> items, isIncomplete |-> isIncomplete[c]]]
  /\ item_cache' = ClearCache(item_cache, isIncomplete[c])
  /\ gst' = [gst EXCEPT ![c] = "returned"]
  /\ UNCHANGED <<cycle, clients, gargs, cb, isIncomplete, errors, requests, outcome>>

\* gather without the catch of l.126-129: the rejection of Promise.all
\* rejects gather
GatherCatch_Rejects(c) ==
  /\ UNCHANGED <<cvars, rvars>>
  /\ gst[c] = "rejected"
  /\ gst' = [gst EXCEPT ![c] = "thrown"]
  /\ UNCHANGED <<item_cache, cycle, clients, gargs, cb, isIncomplete, ret,
                 errors, requests, outcome>>

\* l.126-129 .catch and l.131-138, after Promise.all has rejected
GatherCatch(c) ==
  /\ UNCHANGED <<cvars, rvars>>
  /\ gst[c] = "rejected"
  /\ errors' = [errors EXCEPT ![c] = @ + 1]
  /\ ret' = [ret EXCEPT ![c] = [items |-> <<>>, isIncomplete |-> isIncomplete[c]]]
  /\ item_cache' = ClearCache(item_cache, isIncomplete[c])
  /\ gst' = [gst EXCEPT ![c] = "returned"]
  /\ UNCHANGED <<cycle, clients, gargs, cb, isIncomplete, requests, outcome>>

\* ------------------------------------------------------------------------
\* request (l.141-162): the trigger context
\* ------------------------------------------------------------------------
\* args.context.input: the text before the cursor, character by character
Inputs == UNION {[1 .. n -> {".", ":", "c"}] : n \in 0 .. MaxInput}

\* client.provider.triggerCharacters: absent (<<>>) or an array of strings
TriggerCharacterLists ==
  {<<>>, << <<>> >>, << <<".">> >>, << <<".", ":">> >>, << <<"::">> >>}

\* args.context.input.slice(-1) (l.150): the last character, "" if none
LastOf(input) == IF input = <<>> THEN "" ELSE input[Len(input)]

\* client.provider.triggerCharacters?.includes(trigger) (l.151)
Includes(triggerCharacters, trigger) ==
  /\ triggerCharacters # <<>>
  /\ trigger \in Range(triggerCharacters[1])

\* l.151-162 with the test of args.isIncomplete made first
TriggerContext_IncompleteFirst(input, triggerCharacters, incomplete) ==
  IF incomplete
    THEN [triggerKind |-> "TriggerForIncompleteCompletions"]
    ELSE IF Includes(triggerCharacters, LastOf(input))
           THEN [triggerKind |-> "TriggerCharacter",
                 triggerCharacter |-> LastOf(input)]
           ELSE [triggerKind |-> "Invoked"]

\* params.context (l.150-162)
TriggerContext(input, triggerCharacters, incomplete) ==
  IF Includes(triggerCharacters, LastOf(input))
    THEN [triggerKind |-> "TriggerCharacter",
          triggerCharacter |-> LastOf(input)]
    ELSE [triggerKind |-> IF incomplete
                            THEN "TriggerForIncompleteCompletions"
                            ELSE "Invoked"]

\* l.141-173: request() builds params.context and sends the request
SendRequest(input, triggerCharacters, incomplete) ==
  /\ rq.st = "idle"
  /\ rq' = [st |-> "sent",
            input |-> input,
            triggerCharacters |-> triggerCharacters,
            isIncomplete |-> incomplete,
            context |-> TriggerContext(input, triggerCharacters, incomplete)]
  /\ UNCHANGED <<gvars, cvars>>

\* ------------------------------------------------------------------------
\* onCompleteDone (l.193-237)
\* ------------------------------------------------------------------------
\* JSON.parse(userData.lspitem) (l.206): the stored candidate
JSONparse(str) == str.json

\* ctx.text.slice(start, end) (l.202)
Slice(text, start, end) ==
  SubSeq(text, start + 1, IF end < Len(text) THEN end ELSE Len(text))

\* the guard of l.202 taken from requestCharacter
TextChanged_FromRequest(in) ==
  Slice(in.ctx.text, in.userData.requestCharacter, in.ctx.character) # in.itemWord

\* the guard of l.202
TextChanged(in) ==
  Slice(in.ctx.text, in.userData.suggestCharacter, in.ctx.character) # in.itemWord

\* the value of lspItem.additionalTextEdits as a condition (l.215): an
\* array is truthy also when it is empty
Truthy(additionalTextEdits) == additionalTextEdits # "undefined"

\* CompletionItem.getInsertText
getInsertText(item) ==
  IF item.insertText # <<>> THEN item.insertText[1] ELSE item.label

\* CompletionItem.isReplace
isReplace(item, confirmBehavior, suggestCharacter, requestCharacter) ==
  IF item.textEdit = <<>>
    THEN FALSE
    ELSE LET range == IF confirmBehavior = "replace"
                        THEN item.textEdit[1].replace
                        ELSE item.textEdit[1].insert
         IN  range.start < suggestCharacter \/ range.end > requestCharacter

\* the condition of l.212-222 without its test of additionalTextEdits
NeedsConfirm_TextOnly(item, in) ==
  \/ getInsertText(item) # in.itemWord
  \/ isReplace(item, in.params.confirmBehavior,
               in.userData.suggestCharacter, in.userData.requestCharacter)

\* the condition of l.212-222
NeedsConfirm(item, in) ==
  \/ getInsertText(item) # in.itemWord
  \/ (in.params.enableAdditionalTextEdit /\ Truthy(item.additionalTextEdits))
  \/ isReplace(item, in.params.confirmBehavior,
               in.userData.suggestCharacter, in.userData.requestCharacter)

\* resolve (l.239-250): resolvedItem ?? lspItem
Resolved(resolvedItem, item) ==
  IF resolvedItem = <<>> THEN item ELSE resolvedItem[1]

\* l.211-225: the decision, up to the await of the undo command
Decide(item, eff) ==
  /\ lspItem' = <<item>>
  /\ preview' = preview
  /\ IF NeedsConfirm(item, inp')
       THEN /\ effects' = Append(eff, "undo")
            /\ pc' = "undo"
       ELSE /\ effects' = eff
            /\ pc' = "returned"

\* l.193-209: the host signals that an item was accepted.  The handler
\* keeps no state between two accept events, so one event is modelled.
OnCompleteDone(in) ==
  /\ pc = "idle"
  /\ inp' = in
  /\ IF TextChanged(in)
       THEN /\ pc' = "returned"
            /\ effects' = <<>>
            /\ lspItem' = <<>>
            /\ preview' = preview
       ELSE IF in.params.enableResolveItem
              THEN /\ pc' = "resolve"
                   /\ effects' = <<"resolve">>
                   /\ lspItem' = <<>>
                   /\ preview' = preview
              ELSE Decide(JSONparse(in.userData.lspitem), <<>>)
  /\ results' = results
  /\ UNCHANGED <<gvars, rvars>>

\* l.244-249: the resolve call answers with null (<<>>) or a candidate
ResolveDone(resolvedItem) ==
  /\ pc = "resolve"
  /\ inp' = inp
  /\ results' = Append(results, IF resolvedItem = <<>> THEN "null" ELSE "item")
  /\ Decide(Resolved(resolvedItem, JSONparse(inp.userData.lspitem)), effects)
  /\ UNCHANGED <<gvars, rvars>>

\* l.244: the resolve call throws; nothing catches it
ResolveThrows ==
  /\ pc = "resolve"
  /\ pc' = "thrown"
  /\ results' = Append(results, "threw")
  /\ UNCHANGED <<inp, lspItem, effects, preview, gvars, rvars>>

\* l.225-233: the undo command is done, CompletionItem.confirm is called
UndoDone ==
  /\ pc = "undo"
  /\ pc' = "confirm"
  /\ effects' = Append(effects, "confirm")
  /\ results' = Append(results, "ok")
  /\ UNCHANGED <<inp, lspItem, preview, gvars, rvars>>

\* l.227-235: confirm is done, ddc#skip_next_complete is called
ConfirmDone ==
  /\ pc = "confirm"
  /\ pc' = "skip"
  /\ effects' = Append(effects, "skip")
  /\ results' = Append(results, "ok")
  /\ UNCHANGED <<inp, lspItem, preview, gvars, rvars>>

\* confirm throws and ddc#skip_next_complete is called all the same, as if
\* l.235 stood in a finally block
ConfirmThrows_SkipAnyway ==
  /\ pc = "confirm"
  /\ pc' = "skip"
  /\ effects' = Append(effects, "skip")
  /\ results' = Append(results, "threw")
  /\ UNCHANGED <<inp, lspItem, preview, gvars, rvars>>

\* l.227: confirm throws; nothing catches it
ConfirmThrows ==
  /\ pc = "confirm"
  /\ pc' = "thrown"
  /\ results' = Append(results, "threw")
  /\ UNCHANGED <<inp, lspItem, effects, preview, gvars, rvars>>

\* l.235-237: the call of ddc#skip_next_complete is done
SkipDone ==
  /\ pc = "skip"
  /\ pc' = "returned"
  /\ results' = Append(results, "ok")
  /\ UNCHANGED <<inp, lspItem, effects, preview, gvars, rvars>>

\* ------------------------------------------------------------------------
\* getPreviewer (l.252-335)
\* ------------------------------------------------------------------------
\* strings are sequences of characters; "CR" and "LF" are \r and \n
DocStrings == {<<>>, <<"a", "CR", "LF", "b">>, <<"a", "CR", "b">>}

\* the values of lspItem.documentation
Documentations ==
  {[type |-> "undefined"]}
    \cup [type : {"string"}, value : DocStrings]
    \cup [type : {"object"}, kind : {"plaintext", "markdown"},
          value : DocStrings]

\* the candidates getPreviewer reads: kind 15 is a snippet; detail and
\* data.tsc.source are absent (<<>>) or a string
PreviewItems ==
  [label : {<<"f">>}, insertText : {<<>>}, kind : {1, 15},
   detail : {<<>>, << <<>> >>, << <<"d">> >>},
   data : {<<>>, << <<"m">> >>},
   documentation : Documentations]

\* what the resolve call may answer for a previewed candidate
PreviewResolveResults ==
  {<<>>}
    \cup {<<i>> : i \in {j \in PreviewItems :
                           /\ j.detail = << <<"d">> >>
                           /\ j.data = <<>>
                           /\ j.documentation.type # "object"}}

\* item.user_data with the filetype and the parsed snippet the host answers
PreviewInputs ==
  [userData : {Undefined}
                \cup [lspitem : {[json |-> i] : i \in PreviewItems},
                      clientId : {1}, resolvable : BOOLEAN],
   filetype : {<<"t", "s">>},
   body : {<<"x", "CR", "y">>}]

RECURSIVE ReplaceNewlines(_)
\* str.replaceAll(/\r\n?/g, "\n") (l.69, l.281)
ReplaceNewlines(str) ==
  IF str = <<>>
    THEN <<>>
    ELSE IF Head(str) = "CR"
           THEN IF Len(str) > 1 /\ str[2] = "LF"
                  THEN <<"LF">> \o ReplaceNewlines(SubSeq(str, 3, Len(str)))
                  ELSE <<"LF">> \o ReplaceNewlines(Tail(str))
           ELSE <<Head(str)>> \o ReplaceNewlines(Tail(str))

RECURSIVE Split(_)
\* str.split("\n") (l.69, l.281): the lines of str
Split(str) ==
  IF \A i \in 1 .. Len(str) : str[i] # "LF"
    THEN <<str>>
    ELSE LET i == CHOOSE k \in 1 .. Len(str) :
                    /\ str[k] = "LF"
                    /\ \A m \in 1 .. k - 1 : str[m] # "LF"
         IN  <<SubSeq(str, 1, i - 1)>> \o Split(SubSeq(str, i + 1, Len(str)))

\* splitLines (l.68-70)
splitLines(str) == Split(ReplaceNewlines(str))

\* converter (l.326-335)
converter(doc) ==
  IF doc.type = "string"
    THEN splitLines(doc.value)
    ELSE IF doc.kind = "plaintext"
           THEN splitLines(<<"<text>", "LF">> \o doc.value \o <<"LF", "</text>">>)
           ELSE splitLines(doc.value)

\* the code fence with the filetype (l.280, l.289); "FENCE" is three backquotes
Fence(filetype) == <<"FENCE">> \o filetype

\* contents.push("---") when contents is not empty (l.303-305, l.316-318)
Separated(contents) ==
  IF Len(contents) > 0 THEN Append(contents, <<"---">>) ELSE contents

\* l.287-293
DetailPart(item, filetype) ==
  IF item.detail # <<>> /\ item.detail[1] # <<>>
    THEN <<Fence(filetype)>> \o splitLines(item.detail[1]) \o <<<<"FENCE">>>>
    ELSE <<>>

\* l.296-307: read from the unresolved candidate; "BQ" is a backquote
ImportPart(contents, unresolvedItem) ==
  IF unresolvedItem.data # <<>>
    THEN Append(Separated(contents),
                <<"import from BQ">> \o unresolvedItem.data[1] \o <<"BQ">>)
    ELSE contents

\* l.310-320
DocumentationPart(contents, item) ==
  IF item.documentation.type # "undefined"
       /\ Len(item.documentation.value) > 0
    THEN Separated(contents) \o converter(item.documentation)
    ELSE contents

\* l.266-323: the Previewer built from the candidate resolve returned
Previewer(item, unresolvedItem, filetype, body) ==
  IF item.kind = 15
    THEN [kind |-> "markdown",
          contents |-> <<Fence(filetype)>> \o Split(ReplaceNewlines(body))
                         \o <<<<"FENCE">>>>]
    ELSE [kind |-> "markdown",
          contents |-> DocumentationPart(
                         ImportPart(DetailPart(item, filetype), unresolvedItem),
                         item)]

\* l.252-265: the host asks for the preview of an item.  The handler keeps
\* no state between two calls, so one call is modelled.
GetPreviewer(in) ==
  /\ pc = "idle"
  /\ inp' = in
  /\ IF in.userData = Undefined
       THEN /\ pc' = "returned"
            /\ effects' = <<>>
            /\ preview' = <<[kind |-> "empty"]>>
       ELSE /\ pc' = "previewResolve"
            /\ effects' = <<"resolve">>
            /\ preview' = preview
  /\ UNCHANGED <<lspItem, results, gvars, rvars>>

\* l.244-249, l.266-323: the resolve call answers with null (<<>>) or a
\* candidate and the Previewer is built
PreviewResolveDone(resolvedItem) ==
  /\ pc = "previewResolve"
  /\ pc' = "returned"
  /\ results' = Append(results, IF resolvedItem = <<>> THEN "null" ELSE "item")
  /\ lspItem' = <<Resolved(resolvedItem, JSONparse(inp.userData.lspitem))>>
  /\ preview' = <<Previewer(lspItem'[1], JSONparse(inp.userData.lspitem),
                            inp.filetype, inp.body)>>
  /\ UNCHANGED <<inp, effects, gvars, rvars>>

\* l.244: the resolve call throws; nothing catches it
PreviewResolveThrows ==
  /\ pc = "previewResolve"
  /\ pc' = "thrown"
  /\ results' = Append(results, "threw")
  /\ UNCHANGED <<inp, lspItem, effects, preview, gvars, rvars>>

\* ------------------------------------------------------------------------
\* Specifications
\* ------------------------------------------------------------------------
Init == InitGather /\ InitConfirm /\ InitRequest

Next ==
  \/ \E cl \in ClientLists, a \in GatherArgs : GatherStart(cl, a)
  \/ \E c \in Cycles, p \in Providers, res \in Results : Respond(c, p, res)
  \/ \E c \in Cycles, p \in Providers : Timeout(c, p)
  \/ \E c \in Cycles, p \in Providers : Fail(c, p)
  \/ \E c \in Cycles : GatherThen(c)
  \/ \E c \in Cycles : GatherCatch(c)

\* the gather cycles, one call at a time
Spec == Init /\ [][Next]_vars

\* the timer of deadline() (l.174) fires unless the answer comes first, and
\* the continuation of gather after Promise.all (l.125-138) is run by the
\* event loop once it is queued
Fairness ==
  /\ \A c \in Cycles, p \in Providers : WF_vars(Timeout(c, p))
  /\ \A c \in Cycles : WF_vars(GatherThen(c))
  /\ \A c \in Cycles : WF_vars(GatherCatch(c))

\* the answers where their content does not matter: a complete array and
\* an incomplete list
FewResults ==
  {[kind |-> "array", items |-> <<"console">>],
   [kind |-> "list", items |-> <<"console">>, isIncomplete |-> TRUE]}

NextDeadline ==
  \/ \E cl \in ClientLists, a \in GatherArgs : GatherStart(cl, a)
  \/ \E c \in Cycles, p \in Providers, res \in FewResults : Respond(c, p, res)
  \/ \E c \in Cycles, p \in Providers : Timeout(c, p)
  \/ \E c \in Cycles, p \in Providers, res \in FewResults :
       LateResponse(c, p, res)
  \/ \E c \in Cycles, p \in Providers : Fail(c, p)
  \/ \E c \in Cycles : GatherThen(c)
  \/ \E c \in Cycles : GatherCatch(c)

\* the gather cycles with the answers that come after the deadline
SpecDeadline == Init /\ [][NextDeadline]_vars

\* the same with timers that fire and an event loop that runs
SpecLive == Init /\ [][NextDeadline]_vars /\ Fairness

NextOverlap ==
  \/ \E cl \in ClientLists, a \in GatherArgs : GatherStart(cl, a)
  \/ \E cl \in ClientLists, a \in GatherArgs : GatherOverlap(cl, a)
  \/ \E c \in Cycles, p \in Providers, res \in FewResults :
       Respond(c, p, res)
  \/ \E c \in Cycles, p \in Providers : Timeout(c, p)
  \/ \E c \in Cycles, p \in Providers : Fail(c, p)
  \/ \E c \in Cycles : GatherThen(c)
  \/ \E c \in Cycles : GatherCatch(c)

\* the gather cycles when the host may call gather before an earlier call
\* has returned
SpecOverlap == Init /\ [][NextOverlap]_vars

NextConfirm ==
  \/ \E in \in ConfirmInputs : OnCompleteDone(in)
  \/ \E r \in ResolveResults : ResolveDone(r)
  \/ ResolveThrows
  \/ UndoDone
  \/ ConfirmDone
  \/ ConfirmThrows
  \/ SkipDone
  \/ \E in \in PreviewInputs : GetPreviewer(in)
  \/ \E r \in PreviewResolveResults : PreviewResolveDone(r)
  \/ PreviewResolveThrows

\* the accept events and the preview calls
SpecConfirm == Init /\ [][NextConfirm]_vars

NextRequest ==
  \E input \in Inputs, t \in TriggerCharacterLists, incomplete \in BOOLEAN :
    SendRequest(input, t, incomplete)

\* one request, for every input, capability and session flag
SpecRequest == Init /\ [][NextRequest]_vars

\* ------------------------------------------------------------------------
\* Properties of request
\* ------------------------------------------------------------------------
\* the last character of the input is one of the trigger characters of the
\* provider
LastIsTrigger ==
  /\ rq.input # <<>>
  /\ rq.triggerCharacters # <<>>
  /\ \E i \in 1 .. Len(rq.triggerCharacters[1]) :
       rq.triggerCharacters[1][i] = rq.input[Len(rq.input)]

\* C18: every request carries exactly one trigger classification:
\* TriggerCharacter with that character if the last character of the input
\* is one of the provider's trigger characters; otherwise
\* TriggerForIncompleteCompletions if args.isIncomplete; otherwise Invoked.
C18_Trigger ==
  rq.st = "sent"
    => IF LastIsTrigger
         THEN rq.context = [triggerKind |-> "TriggerCharacter",
                            triggerCharacter |-> rq.input[Len(rq.input)]]
         ELSE IF rq.isIncomplete
                THEN rq.context
                       = [triggerKind |-> "TriggerForIncompleteCompletions"]
                ELSE rq.context = [triggerKind |-> "Invoked"]

\* a request of an incomplete session whose input ends with a trigger
\* character is classified by the character
C18_Witness ==
  /\ rq.st = "sent"
  /\ rq.isIncomplete
  /\ LastIsTrigger
  /\ rq.context.triggerKind = "TriggerCharacter"

\* ------------------------------------------------------------------------
\* Properties of gather
\* ------------------------------------------------------------------------
\* call c is the latest call and has returned
LastReturned(c) == c = cycle /\ gst[c] = "returned"

\* the client answered the request of a running call with a list or array
Answered(o) == o.kind \in {"list", "array"}

\* the answer, early or late, declared itself incomplete
IncompleteAnswer(o) == o.kind \in {"list", "late"} /\ o.isIncomplete

\* the answer was a complete list or a bare array
CompleteAnswer(o) == Answered(o) /\ ~ToCompletionList(o).isIncomplete

\* C1: after a gather cycle that returned isIncomplete = false the cache
\* holds no entry for any provider, so the next cycle finds none, whatever
\* the outcomes of the providers (answer, timeout, failure) and their order.
C1_Claim ==
  \A c \in Cycles :
    (LastReturned(c) /\ ~ret[c].isIncomplete) => DOMAIN item_cache = {}

\* C2: when the request to one provider fails with an error other than a
\* timeout, the failure is reported and the items of every other provider
\* that answered in the same cycle are in the list gather returns.
C2_Claim ==
  \A c \in Cycles :
    (LastReturned(c) /\ \E p \in Range(clients[c]) : outcome[c][p].kind = "fail")
      => /\ errors[c] >= 1
         /\ \A q \in Range(clients[c]) :
              Answered(outcome[c][q])
                => \A i \in 1 .. Len(cb[c][q].items) :
                     \E j \in 1 .. Len(ret[c].items) :
                       ret[c].items[j] = cb[c][q].items[i]

\* C3: right after gather has processed a provider's response, the cache
\* holds that provider's normalized items if the response was complete and
\* holds no entry for that provider if the response was incomplete.
C3_Claim ==
  [][\A c \in Cycles, p \in Providers :
       (gst[c] = "awaiting" /\ cb[c][p].st = "waiting" /\ Answered(outcome'[c][p]))
         => IF ToCompletionList(outcome'[c][p]).isIncomplete
              THEN p \notin DOMAIN item_cache'
              ELSE /\ p \in DOMAIN item_cache'
                   /\ item_cache'[p] = cb'[c][p].items]_vars

\* C4: the isIncomplete flag a cycle returns is true exactly when a
\* provider's response to a request of that cycle was incomplete, whether
\* or not another provider failed in the cycle.
C4_Claim ==
  \A c \in Cycles :
    LastReturned(c)
      => (ret[c].isIncomplete
            <=> \E p \in Range(clients[c]) : IncompleteAnswer(outcome[c][p]))

\* the merge of the callbacks' results of call c when p contributes nothing
FlatWithout(c, p) ==
  Flat([i \in 1 .. Len(clients[c]) |->
          IF clients[c][i] = p THEN <<>> ELSE cb[c][clients[c][i]].items])

C5_TimeoutState ==
  \A c \in Cycles, p \in Providers :
    outcome[c][p].kind = "timeout"
      => /\ cb[c][p].st = "fulfilled"
         /\ cb[c][p].items = <<>>
         /\ (gst[c] = "returned" /\ \A q \in Providers : outcome[c][q].kind # "fail")
              => /\ errors[c] = 0
                 /\ ret[c].items = FlatWithout(c, p)
                 /\ ret[c].isIncomplete
                      = (\E q \in Range(clients[c]) \ {p} :
                           IncompleteAnswer(outcome[c][q]))

C5_TimeoutStep ==
  \A c \in Cycles, p \in Providers :
    (outcome[c][p].kind = "none" /\ outcome'[c][p].kind = "timeout")
      => /\ item_cache' = item_cache
         /\ errors' = errors
         /\ isIncomplete' = isIncomplete
         /\ ret' = ret

\* C5: a provider whose request reaches the timeout counts as a provider
\* with no items: its callback returns the empty list, nothing is reported
\* on the error channel, the cache and the isIncomplete flag are left as
\* they are, and gather returns the other providers' items unchanged.
C5_Timeout == []C5_TimeoutState /\ [][C5_TimeoutStep]_vars

C5_Witness ==
  \E c \in Cycles, p \in Providers, q \in Providers :
    /\ gst[c] = "returned"
    /\ outcome[c][p].kind = "timeout"
    /\ Answered(outcome[c][q])
    /\ ret[c].items # <<>>
    /\ errors[c] = 0

\* a cycle in which one provider answered incomplete and another complete
ScenarioC(c) ==
  /\ LastReturned(c)
  /\ \E p \in Range(clients[c]), q \in Range(clients[c]) :
       /\ p # q
       /\ Answered(outcome[c][p]) /\ IncompleteAnswer(outcome[c][p])
       /\ CompleteAnswer(outcome[c][q])

C6_State ==
  \A c \in Cycles :
    ScenarioC(c)
      => /\ ret[c].isIncomplete
         /\ DOMAIN item_cache
              = {q \in Range(clients[c]) : CompleteAnswer(outcome[c][q])}

C6_NextStep ==
  \A c \in Cycles :
    (ScenarioC(c) /\ cycle' = cycle + 1)
      => \A p \in Range(clients'[cycle']) :
           IF p \in DOMAIN item_cache
             THEN /\ requests'[cycle'][p] = 0
                  /\ cb'[cycle'][p].items = item_cache[p]
             ELSE requests'[cycle'][p] = 1

\* C6: when one provider answers incomplete and another complete, gather
\* returns isIncomplete = true and the cache afterwards holds an entry for
\* the complete provider only; in the next cycle a provider with an entry
\* is served from the cache without a request and a provider without one
\* gets exactly one request.
C6_Claim == []C6_State /\ [][C6_NextStep]_vars

\* the only provider of call c answered one candidate in a complete response
OneCandidateComplete(c, p) ==
  /\ clients[c] = <<p>>
  /\ CompleteAnswer(outcome[c][p])
  /\ Len(outcome[c][p].items) = 1

\* C7: after a cycle in which the only provider answers one candidate with
\* isIncomplete = false, gather returns one item and the cache holds that
\* provider's item once the cycle has returned.
C7_Claim ==
  \A c \in Cycles, p \in Providers :
    (LastReturned(c) /\ OneCandidateComplete(c, p))
      => /\ Len(ret[c].items) = 1
         /\ p \in DOMAIN item_cache
         /\ item_cache[p] = ret[c].items

\* C7 as amended: when the only provider answers one candidate that the
\* normalizer keeps, with isIncomplete = false, gather returns one item and
\* isIncomplete = false, and the cache holds no entry when the cycle
\* returns: the entry put for the provider is cleared before the return.
C7_Amended ==
  [][\A c \in Cycles, p \in Providers :
       (/\ gst[c] = "resolved"
        /\ gst'[c] = "returned"
        /\ OneCandidateComplete(c, p)
        /\ isDefined(ToDdcItem(outcome[c][p].items[1], Client(p), gargs[c])))
         => /\ Len(ret'[c].items) = 1
            /\ ret'[c].items = cb[c][p].items
            /\ ~ret'[c].isIncomplete
            /\ p \in DOMAIN item_cache
            /\ DOMAIN item_cache' = {}]_vars

C7_Witness ==
  \E c \in Cycles, p \in Providers :
    /\ LastReturned(c)
    /\ OneCandidateComplete(c, p)
    /\ Len(ret[c].items) = 1
    /\ DOMAIN item_cache = {}

\* in this step an answer of client p, to a running call or to one that has
\* returned, is processed by the callback of l.89-125
Processed(c, p) ==
  /\ outcome[c][p].kind = "none"
  /\ outcome'[c][p].kind \in {"list", "array", "late"}
  /\ cb[c][p].st = "waiting"
  /\ cb'[c][p].st = "fulfilled"

\* C14: each cache entry belongs to a provider whose most recent response
\* was complete, and a provider whose most recent response was incomplete
\* has no entry and is sent a request by every following cycle that lists
\* it.  Stated on the steps: the cache has no entry for a provider right
\* after an incomplete response of it; an entry appears only when a
\* complete response of that provider is processed; a cycle sends a request
\* to every listed provider without entry.
C14_Claim ==
  [][\A p \in Providers :
       /\ (\E c \in Cycles :
             Processed(c, p) /\ IncompleteAnswer(outcome'[c][p]))
            => p \notin DOMAIN item_cache'
       /\ (p \notin DOMAIN item_cache /\ p \in DOMAIN item_cache')
            => \E c \in Cycles :
                 Processed(c, p) /\ ~IncompleteAnswer(outcome'[c][p])
       /\ (cycle' = cycle + 1 /\ p \in Range(clients'[cycle'])
             /\ p \notin DOMAIN item_cache)
            => requests'[cycle'][p] = 1]_vars

\* C17: the item list gather returns is the concatenation, in the order of
\* the provider list, of the item lists of the providers, each taken from
\* the cache or from the provider's response to this cycle.
C17_Claim ==
  \A c \in Cycles :
    LastReturned(c)
      => ret[c].items
           = Flat([i \in 1 .. Len(clients[c]) |-> cb[c][clients[c][i]].items])

\* the item carries the line and the offsets gather read at the start of
\* call c
CarriesSnapshot(item, c) ==
  /\ item.lineOnRequest = gargs[c].lineOnRequest
  /\ item.requestCharacter = gargs[c].completePos + gargs[c].completeStrLen
  /\ item.suggestCharacter = gargs[c].completePos

\* C20: every item of the list a gather cycle returns carries the buffer
\* snapshot of that same cycle, the items built from a new response and the
\* items served from the cache alike.
C20_Claim ==
  \A c \in Cycles :
    LastReturned(c)
      => \A i \in 1 .. Len(ret[c].items) : CarriesSnapshot(ret[c].items[i], c)

\* C20 as amended: every item of the returned list that was built from a
\* response to a request of that cycle carries the buffer snapshot of that
\* cycle; an item served from the cache carries the snapshot of the call
\* whose request produced it, which may be an earlier one.
C20_Amended ==
  \A c \in Cycles :
    LastReturned(c)
      => /\ \A i \in 1 .. Len(ret[c].items) :
              \/ outcome[c][ret[c].items[i].clientId].kind = "cache"
              \/ CarriesSnapshot(ret[c].items[i], c)
         /\ \A p \in Range(clients[c]) :
              Answered(outcome[c][p])
                => \A i \in 1 .. Len(cb[c][p].items) :
                     CarriesSnapshot(cb[c][p].items[i], c)
         /\ \A i \in 1 .. Len(ret[c].items) :
              \E a \in GatherArgs :
                /\ ret[c].items[i].lineOnRequest = a.lineOnRequest
                /\ ret[c].items[i].requestCharacter
                     = a.completePos + a.completeStrLen
                /\ ret[c].items[i].suggestCharacter = a.completePos

\* the second call has returned an item served from the cache, which
\* carries another line than the one the second call read, and an item of
\* a new response
C20_Witness ==
  /\ cycle = 2
  /\ gst[2] = "returned"
  /\ \E i, j \in 1 .. Len(ret[2].items) :
       /\ outcome[2][ret[2].items[i].clientId].kind = "cache"
       /\ ret[2].items[i].lineOnRequest # gargs[2].lineOnRequest
       /\ ret[2].items[i].requestCharacter
            # gargs[2].completePos + gargs[2].completeStrLen
       /\ Answered(outcome[2][ret[2].items[j].clientId])
       /\ CarriesSnapshot(ret[2].items[j], 2)

\* C13: the cache is a critical section: at every moment at most one
\* gather call is between its first read of the cache and its final
\* merge-and-clear, and no call is in that section while a callback of
\* another call still waits for its response.
C13_Claim ==
  \A c, d \in Cycles :
    (c # d /\ Running(c))
      => /\ ~Running(d)
         /\ \A p \in Providers : cb[d][p].st # "waiting"

\* C19: every gather call eventually returns a result: it neither hangs
\* nor rejects, whether its providers answer, fail or never answer; a
\* provider that never answers is cut off by the timeout.
C19_Returns ==
  \A c \in Cycles : Running(c) ~> (gst[c] = "returned")

\* a call has returned after one provider never answered and the other
\* one answered with an item, which is in the returned list
C19_Witness ==
  \E c \in Cycles, p, q \in Providers :
    /\ gst[c] = "returned"
    /\ outcome[c][p].kind = "timeout"
    /\ ~outcome[c][p].answered
    /\ Answered(outcome[c][q])
    /\ ret[c].items # <<>>
    /\ ret[c].items = cb[c][q].items

\* the answer to the request of client p in call c has come after the
\* deadline of that request
AnsweredLate(o) == o.kind \in {"timeout", "discarded"} /\ o.answered

\* C15: a provider response that arrives after the request of that provider
\* has timed out is discarded: the step in which it arrives changes neither
\* the cache, nor the callbacks, the flag and the result of the call that
\* sent the request, nor those of any other call.
C15_Discarded ==
  [][\A c \in Cycles, p \in Providers :
       (~AnsweredLate(outcome[c][p]) /\ AnsweredLate(outcome'[c][p]))
         => /\ item_cache' = item_cache
            /\ cb' = cb
            /\ isIncomplete' = isIncomplete
            /\ ret' = ret
            /\ gst' = gst
            /\ requests' = requests
            /\ errors' = errors]_vars

\* the answer to a request of the first call has come, after its deadline,
\* while the second call was waiting for the same client; the second call
\* has returned the items of its own request
C15_Witness ==
  \E p \in Providers :
    /\ cycle = 2
    /\ outcome[1][p].kind = "discarded"
    /\ Answered(outcome[2][p])
    /\ gst[2] = "returned"
    /\ ret[2].items # <<>>
    /\ ret[2].items = cb[2][p].items

\* ------------------------------------------------------------------------
\* Properties of onCompleteDone
\* ------------------------------------------------------------------------
\* onCompleteDone was called
Accepted == pc # "idle" /\ "params" \in DOMAIN inp

\* getPreviewer was called
Previewed == pc # "idle" /\ "filetype" \in DOMAIN inp

\* the text between suggestCharacter and the cursor is the accepted word
LiveTextIsWord ==
  Slice(inp.ctx.text, inp.userData.suggestCharacter, inp.ctx.character)
    = inp.itemWord

\* C8: when the live text between suggestCharacter and the cursor differs
\* from the accepted word, onCompleteDone returns without any effect: no
\* resolve request, no undo boundary, no edit, no skip, no error.
C8_GuardNoEffect ==
  (Accepted /\ ~LiveTextIsWord)
    => /\ pc = "returned"
       /\ effects = <<>>
       /\ lspItem = <<>>

C8_Witness ==
  /\ Accepted
  /\ pc = "returned"
  /\ ~LiveTextIsWord
  /\ inp.params.enableResolveItem
  /\ inp.params.enableAdditionalTextEdit
  /\ JSONparse(inp.userData.lspitem).additionalTextEdits = "edits"
  /\ effects = <<>>

\* C9: when the accepted word equals the candidate's canonical insert
\* text, the candidate has no additional text edits and isReplace is false,
\* onCompleteDone sets no undo boundary, applies no edit and does not skip
\* the next completion.
C9_Claim ==
  (/\ Accepted
   /\ lspItem # <<>>
   /\ getInsertText(lspItem[1]) = inp.itemWord
   /\ lspItem[1].additionalTextEdits \in {"undefined", "empty"}
   /\ ~isReplace(lspItem[1], inp.params.confirmBehavior,
                 inp.userData.suggestCharacter, inp.userData.requestCharacter))
    => \A i \in 1 .. Len(effects) : effects[i] = "resolve"

IsEditStep(e) == e # "resolve"

\* the host calls of l.225-235 made so far, in order
EditSteps == SelectSeq(effects, IsEditStep)

\* CompletionItem.confirm was called and has completed
ConfirmCompleted ==
  \E i \in 1 .. Len(effects) :
    /\ effects[i] = "confirm"
    /\ i <= Len(results)
    /\ results[i] = "ok"

\* C16: when onCompleteDone decides that a corrective edit is required it
\* sets the undo boundary, then applies CompletionItem.confirm, then tells
\* the host to skip the next completion, in this order; the skip is issued
\* if and only if confirm was applied and completed.
C16_Order ==
  Accepted
    => /\ EditSteps = SubSeq(<<"undo", "confirm", "skip">>, 1, Len(EditSteps))
       /\ lspItem # <<>>
            => ("undo" \in Range(effects) <=> NeedsConfirm(lspItem[1], inp))
       /\ "skip" \in Range(effects) <=> ConfirmCompleted
       /\ (pc = "returned" /\ "undo" \in Range(effects))
            => EditSteps = <<"undo", "confirm", "skip">>

C16_Witness ==
  /\ Accepted
  /\ pc = "returned"
  /\ effects = <<"resolve", "undo", "confirm", "skip">>
  /\ results = <<"item", "ok", "ok", "ok">>
  /\ NeedsConfirm(lspItem[1], inp)

\* ------------------------------------------------------------------------
\* Properties of resolve
\* ------------------------------------------------------------------------
\* the resolve call of l.244 was made
ResolveSent == "resolve" \in Range(effects)

\* the resolve call of l.244 was made and ended as how says
ResolveEnded(how) ==
  /\ ResolveSent
  /\ Len(results) >= 1
  /\ results[1] = how

\* C11: a resolve request is sent only for a candidate whose stored
\* resolvable flag is true: onCompleteDone, once past the guard of l.202,
\* resolves exactly when resolvable and enableResolveItem are both true, and
\* getPreviewer resolves exactly when resolvable is true.
C11_Claim ==
  /\ ResolveSent => inp.userData.resolvable
  /\ (Accepted /\ ~TextChanged(inp))
       => (ResolveSent
             <=> (inp.userData.resolvable /\ inp.params.enableResolveItem))
  /\ (Previewed /\ inp.userData # Undefined)
       => (ResolveSent <=> inp.userData.resolvable)

\* C12: when the resolve call fails or answers null, confirm and preview go
\* on with the unresolved candidate: no error reaches the caller, and the
\* decision and the preview are those of the unresolved candidate.
C12_Claim ==
  /\ ResolveEnded("threw") => pc # "thrown"
  /\ (ResolveEnded("threw") \/ ResolveEnded("null"))
       => /\ lspItem = <<JSONparse(inp.userData.lspitem)>>
          /\ Accepted
               => ("undo" \in Range(effects)
                     <=> NeedsConfirm(JSONparse(inp.userData.lspitem), inp))
          /\ Previewed
               => preview = <<Previewer(JSONparse(inp.userData.lspitem),
                                        JSONparse(inp.userData.lspitem),
                                        inp.filetype, inp.body)>>

====
